---------------------------- MODULE Spec2Model ----------------------------
(***************************************************************************)
(* A model of src/pages/index.tsx: the wallet-connector selector of App    *)
(* and the staking panel Interact (Approve, Fetch, select, Stake).         *)
(*                                                                         *)
(* React state is modelled by variables.  A handler and everything React   *)
(* runs before the next event (the re-render and the passive effects of    *)
(* that render, the microtasks of a settled promise) form one action.      *)
(* The contracts and the wallet library are the environment: each pending  *)
(* promise settles in an action of its own, with any outcome.              *)
(***************************************************************************)
EXTENDS Integers, Sequences, FiniteSets, TLC

(***************************************************************************)
(* Bounds of the model.                                                    *)
(***************************************************************************)
\* the largest balance balanceOf resolves to
MaxBalance == 2
\* the number of Fetch clicks in one behaviour
MaxFetches == 1
\* the number of Approve and Stake calls in flight at once
MaxCalls == 1
\* the longest checked-id sequence a toggle may build
MaxChecked == 2
\* token ids are 1..MaxTokenId
MaxTokenId == 2
\* the number of Fetch clicks in one behaviour of the in-flight specification
MaxPendingFetches == 2
\* the number of calls in flight at once in the in-flight specification
MaxPendingCalls == 3

TokenIds == 1..MaxTokenId

(***************************************************************************)
(* The connector registry.                                                 *)
(***************************************************************************)
None == "none"

ConnectorNames ==
  {"Metamask", "Network", "WalletConnect", "WalletLink", "Ledger", "Trezor",
   "Lattice", "Frame", "Authereum", "Fortmatic", "Magic", "Portis", "Torus"}

\* connectorsByName maps each button name to its connector object; a
\* connector object is identified with the name of its registry entry.
connectorsByName == [name \in ConnectorNames |-> name]

Injected == connectorsByName["Metamask"]

\* The connectors the panel specification connects through.
PanelConnectors == {"Metamask"}

\* The accounts a wallet may expose.  The Network connector exposes none
\* (account is null), so the panel never renders through it.
Accounts == {"0xA", "0xB"}
NullAccount == "null"

AccountsOf(name) == IF name = "Network" THEN {NullAccount} ELSE Accounts

(***************************************************************************)
(* Errors of the connection context.  An error object is its class: the    *)
(* package that defines the class and the class's name.  instanceof        *)
(* compares classes, so two classes of the same name from two packages     *)
(* are different.                                                          *)
(***************************************************************************)
NoError == [pkg |-> "", cls |-> ""]

NoEthereumProviderError == [pkg |-> "injected-connector", cls |-> "NoEthereumProviderError"]
UnsupportedChainIdError == [pkg |-> "core", cls |-> "UnsupportedChainIdError"]
UserRejectedRequestErrorInjected == [pkg |-> "injected-connector", cls |-> "UserRejectedRequestError"]
UserRejectedRequestErrorWalletConnect == [pkg |-> "walletconnect-connector", cls |-> "UserRejectedRequestError"]
UserRejectedRequestErrorFrame == [pkg |-> "frame-connector", cls |-> "UserRejectedRequestError"]
\* the magic connector's package defines a UserRejectedRequestError of its own
UserRejectedRequestErrorMagic == [pkg |-> "magic-connector", cls |-> "UserRejectedRequestError"]
UnknownError == [pkg |-> "", cls |-> "Error"]

\* The errors an activation of a connector can end with.
ErrorsOf(name) ==
  {UnsupportedChainIdError, UnknownError}
    \cup (IF name = "Metamask" THEN {NoEthereumProviderError, UserRejectedRequestErrorInjected} ELSE {})
    \cup (IF name = "WalletConnect" THEN {UserRejectedRequestErrorWalletConnect} ELSE {})
    \cup (IF name = "Frame" THEN {UserRejectedRequestErrorFrame} ELSE {})
    \cup (IF name = "Magic" THEN {UserRejectedRequestErrorMagic} ELSE {})

Errors == UNION {ErrorsOf(name) : name \in ConnectorNames}

IsUserRejection(error) == error.cls = "UserRejectedRequestError"

MsgNoProvider ==
  "No Ethereum browser extension detected, install MetaMask on desktop or visit from a dApp browser on mobile."
MsgUnsupported == "You're connected to an unsupported network."
MsgAuthorize == "Please authorize this website to access your Ethereum account."
MsgUnknown == "An unknown error occurred. Check the console for more details."

getErrorMessage(error) ==
  IF error = NoEthereumProviderError THEN MsgNoProvider
  ELSE IF error = UnsupportedChainIdError THEN MsgUnsupported
  ELSE IF \/ error = UserRejectedRequestErrorInjected
          \/ error = UserRejectedRequestErrorWalletConnect
          \/ error = UserRejectedRequestErrorFrame
       THEN MsgAuthorize
  ELSE MsgUnknown

(***************************************************************************)
(* State.                                                                  *)
(***************************************************************************)
Collections == {"Cranium", "Stallion"}

VARIABLES
  \* the connection context (useWeb3React)
  connector,            \* the active connector, or None
  account,              \* the account, None (undefined) or NullAccount
  error,                \* the context's error, or NoError
  activations,          \* the connectors whose activate() promise is pending
  \* App
  activatingConnector,  \* the activation-in-progress marker, or None
  triedEager,           \* useEagerConnect's flag
  \* Interact
  ownedIds,             \* craniumBalance and stallionBalance
  checkedIds,           \* checkedCraniums and checkedStallions
  boxes,                \* the DOM's checked flag of each rendered checkbox
  \* the promises of the panel's contract calls
  fetches,              \* one record per Fetch click
  calls,                \* the Approve and Stake calls in flight
  alerts,               \* the window.alert calls of the last step
  outcome               \* the call promise the last step settled, and how

vars == <<connector, account, error, activations, activatingConnector, triedEager,
          ownedIds, checkedIds, boxes, fetches, calls, alerts, outcome>>

craniumBalance == ownedIds["Cranium"]
stallionBalance == ownedIds["Stallion"]
checkedCraniums == checkedIds["Cranium"]
checkedStallions == checkedIds["Stallion"]

\* Web3React's active flag and library handle: the library exists exactly
\* when the context is active.
Active(conn, acct, err) == conn # None /\ acct # None /\ err = NoError
active == Active(connector, account, error)

\* Interact renders its panel when props.library && props.account.
Shown(conn, acct, err) == Active(conn, acct, err) /\ acct # NullAccount
panelShown == Shown(connector, account, error)


(***************************************************************************)
(* Rendering.  The checkboxes of a collection are the children of one <p>  *)
(* and have no key, so React matches them by position: the checkbox at     *)
(* position i keeps its DOM node, and with it its checked flag, across     *)
(* renders; a new position starts unchecked; nothing is rendered while the *)
(* panel is hidden.  No checkbox has a `checked` prop.                     *)
(***************************************************************************)
Render(old, owned, shown) ==
  [c \in Collections |->
     IF shown
     THEN [i \in 1..Len(owned[c]) |-> IF i <= Len(old[c]) THEN old[c][i] ELSE FALSE]
     ELSE <<>>]


(***************************************************************************)
(* App: the connector selector.                                            *)
(***************************************************************************)
\* A mutant of the effect: the marker is never cleared.
activatingConnectorEffect_keeps(marker, conn) == marker

\* The effect of App that clears the marker; it runs after every render in
\* which the marker or the context's connector changed.
activatingConnectorEffect(marker, conn) ==
  IF marker # None /\ marker = conn THEN None ELSE marker

\* A mutant of disabled: the eager-connect flag is not consulted.
disabled_noEager(name) ==
  activatingConnector # None \/ connectorsByName[name] = connector \/ error # NoError

\* disabled, of the button of registry entry `name`
disabled(name) ==
  \/ ~triedEager
  \/ activatingConnector # None
  \/ connectorsByName[name] = connector
  \/ error # NoError

\* useInactiveListener(suppress): the listeners are registered when not
\* suppressed and the context is neither active nor in error.
suppress == ~triedEager \/ activatingConnector # None
listening == ~suppress /\ ~active /\ error = NoError

\* no call promise settled in the step
NoOutcome == [st |-> "none", op |-> "", contract |-> ""]

Init ==
  /\ connector = None
  /\ account = None
  /\ error = NoError
  /\ activations = {}
  /\ activatingConnector = None
  /\ triedEager = FALSE
  /\ ownedIds = [c \in Collections |-> <<>>]
  /\ checkedIds = [c \in Collections |-> <<>>]
  /\ boxes = [c \in Collections |-> <<>>]
  /\ fetches = <<>>
  /\ calls = <<>>
  /\ alerts = <<>>
  /\ outcome = NoOutcome

\* What every wallet action leaves alone, and the re-render it causes.
WalletFrame ==
  /\ boxes' = Render(boxes, ownedIds, Shown(connector', account', error'))
  /\ alerts' = <<>>
  /\ outcome' = NoOutcome
  /\ UNCHANGED <<ownedIds, checkedIds, fetches, calls>>

\* useEagerConnect: the provider had authorized the site; the injected
\* connector is activated and the flag is set once the context is active.
EagerConnectGranted(a) ==
  /\ ~triedEager
  /\ connector' = Injected
  /\ account' = a
  /\ error' = NoError
  /\ triedEager' = TRUE
  /\ activatingConnector' = activatingConnectorEffect(activatingConnector, connector')
  /\ UNCHANGED activations
  /\ WalletFrame

\* useEagerConnect: not authorized, or the silent activation failed.
EagerConnectDenied ==
  /\ ~triedEager
  /\ triedEager' = TRUE
  /\ UNCHANGED <<connector, account, error, activations, activatingConnector>>
  /\ WalletFrame

\* onClick of the button of registry entry `name`
ClickConnector(name) ==
  /\ ~disabled(name)
  /\ activatingConnector' = activatingConnectorEffect(connectorsByName[name], connector)
  /\ activations' = activations \cup {connectorsByName[name]}
  /\ UNCHANGED <<connector, account, error, triedEager>>
  /\ WalletFrame

\* a pending activate(conn) resolves: the context becomes active on conn
ActivationSucceeds(conn, a) ==
  /\ conn \in activations
  /\ a \in AccountsOf(conn)
  /\ activations' = activations \ {conn}
  /\ connector' = conn
  /\ account' = a
  /\ error' = NoError
  /\ activatingConnector' = activatingConnectorEffect(activatingConnector, connector')
  /\ UNCHANGED triedEager
  /\ WalletFrame

\* a pending activate(conn) fails: the context holds conn and the error
ActivationFails(conn, err) ==
  /\ conn \in activations
  /\ err \in ErrorsOf(conn)
  /\ activations' = activations \ {conn}
  /\ connector' = conn
  /\ account' = None
  /\ error' = err
  /\ activatingConnector' = activatingConnectorEffect(activatingConnector, connector')
  /\ UNCHANGED triedEager
  /\ WalletFrame

\* onClick of the Deactivate button, rendered when active or in error
Deactivate ==
  /\ active \/ error # NoError
  /\ connector' = None
  /\ account' = None
  /\ error' = NoError
  /\ UNCHANGED <<activations, activatingConnector, triedEager>>
  /\ WalletFrame

\* the wallet switches to another account while the context is active
AccountsChanged(a) ==
  /\ active
  /\ account # NullAccount
  /\ a # account
  /\ account' = a
  /\ UNCHANGED <<connector, error, activations, activatingConnector, triedEager>>
  /\ WalletFrame

\* useInactiveListener: a provider event while listening activates the
\* injected connector
ProviderEvent ==
  /\ listening
  /\ Injected \notin activations
  /\ activations' = activations \cup {Injected}
  /\ UNCHANGED <<connector, account, error, activatingConnector, triedEager>>
  /\ WalletFrame

\* the wallet actions, through the connectors of `names`
Wallet(names) ==
  \/ \E a \in Accounts : EagerConnectGranted(a)
  \/ EagerConnectDenied
  \/ \E name \in names : ClickConnector(name)
  \/ \E name \in names, a \in Accounts \cup {NullAccount} :
       ActivationSucceeds(connectorsByName[name], a)
  \/ \E name \in names, err \in Errors : ActivationFails(connectorsByName[name], err)
  \/ Deactivate
  \/ \E a \in Accounts : AccountsChanged(a)
  \/ ProviderEvent


(***************************************************************************)
(* Interact: promises of contract calls.  A promise is pending, rejected,  *)
(* or resolved to a BigNumber; Number(e) converts a BigNumber to a number  *)
(* (exactly, below 2^53).                                                  *)
(***************************************************************************)
Pending == [type |-> "pending", value |-> 0]
Rejected == [type |-> "rejected", value |-> 0]
BigNumber(n) == [type |-> "BigNumber", value |-> n]
Number(e) == e.value

IsResolved(p) == p.type = "BigNumber"

\* Promise.all over the promises of a sequence: rejected as soon as one of
\* them is, resolved once all of them are.
PromiseAll(ps) ==
  IF \E i \in 1..Len(ps) : ps[i] = Rejected THEN "rejected"
  ELSE IF \A i \in 1..Len(ps) : IsResolved(ps[i]) THEN "resolved"
  ELSE "pending"

\* A mutant of the index lookups: the index starts at 1.
tokenPromises_fromOne(balance) ==
  [i \in 1..Number(balance) |-> [index |-> i, st |-> Pending]]

\* Array.apply(null, Array(Number(balance))).map((_e, i) =>
\*   contract.tokenOfOwnerByIndex(props.account, i))
tokenPromises(balance) ==
  [i \in 1..Number(balance) |-> [index |-> i - 1, st |-> Pending]]

States(lookups) == [i \in 1..Len(lookups) |-> lookups[i].st]

\* A mutant of the write: the then-callback also runs when a lookup failed.
tokensReady_settled(lookups) ==
  \A i \in 1..Len(lookups) : lookups[i].st # Pending

\* Promise.all(token_promises).then(...) runs its callback
tokensReady(lookups) == PromiseAll(States(lookups)) = "resolved"

\* token_array.map((e) => Number(e)): Promise.all resolves to the values
\* in the order of the promises, whatever the order they resolved in.
tokenArray(lookups) == [i \in 1..Len(lookups) |-> Number(lookups[i].st)]

\* A mutant of the balances' join: each collection waits for its own balance.
balancesReady_own(bal, c) == IsResolved(bal[c])

\* Promise.all([cranium_balance_promise, stallion_balance_promise]).then(...)
\* runs its callback, which sends the lookups of collection c
balancesReady(bal, c) == PromiseAll(<<bal["Cranium"], bal["Stallion"]>>) = "resolved"

\* the promise the catch callback of Fetch hangs on is rejected
fetchFailed(fe) == PromiseAll(<<fe.bal["Cranium"], fe.bal["Stallion"]>>) = "rejected"

\* A fetch: the promises of one click, with what has run so far.
NewFetch ==
  [bal |-> [c \in Collections |-> Pending],
   issued |-> [c \in Collections |-> FALSE],
   lookups |-> [c \in Collections |-> <<>>],
   order |-> [c \in Collections |-> <<>>],
   wrote |-> [c \in Collections |-> FALSE],
   alerted |-> 0]

\* the errors a contract call rejects with
Undefined == [defined |-> FALSE, message |-> ""]
CallErrors == {Undefined, [defined |-> TRUE, message |-> "reverted"]}

\* prefix + (error && error.message ? `\n\n${JSON.stringify(error.message)}` : "")
alertText(prefix, err) ==
  [text |-> prefix,
   detail |-> IF err.defined /\ err.message # "" THEN err.message ELSE ""]

MsgFetch == "Failure fetching Cranium & Stallion balance!"
MsgStake == "Staking transaction could not be sent!"
MsgApprove(c) == IF c = "Cranium" THEN "Failure approving Craniums!" ELSE "Failure approving Stallions!"

\* What a panel action leaves alone.
PanelFrame == UNCHANGED <<connector, account, error, activations, activatingConnector, triedEager>>

\* onClick of "Fetch Craniums + Stallions": both balanceOf calls are sent
FetchClick ==
  /\ panelShown
  /\ fetches' = Append(fetches, NewFetch)
  /\ alerts' = <<>>
  /\ outcome' = NoOutcome
  /\ UNCHANGED <<ownedIds, checkedIds, boxes, calls>>
  /\ PanelFrame

\* The callbacks that a settled promise of fetch record fe makes run: the
\* balances' then-callback sends the lookups of a collection (none for a
\* balance of 0); the lookups' then-callback sets the owned ids; the catch
\* callback alerts.  `err` is the error of the promise that settled.
Callbacks(old, fe) ==
  LET iss == [c \in Collections |-> old.issued[c] \/ balancesReady(fe.bal, c)]
      lk == [c \in Collections |->
               IF iss[c] /\ ~old.issued[c] THEN tokenPromises(fe.bal[c]) ELSE fe.lookups[c]]
  IN  [fe EXCEPT !.issued = iss,
                 !.lookups = lk,
                 !.wrote = [c \in Collections |-> old.wrote[c] \/ (iss[c] /\ tokensReady(lk[c]))],
                 !.alerted = IF fetchFailed(fe) /\ ~fetchFailed(old)
                            THEN old.alerted + 1 ELSE old.alerted]

\* a settled promise turns fetch record f into `got`
FetchStep(f, got, err) ==
  LET new == Callbacks(fetches[f], got)
  IN  /\ fetches' = [fetches EXCEPT ![f] = new]
      /\ ownedIds' = [c \in Collections |->
                        IF new.wrote[c] /\ ~fetches[f].wrote[c]
                        THEN tokenArray(new.lookups[c])
                        ELSE ownedIds[c]]
      /\ alerts' = IF new.alerted > fetches[f].alerted
                   THEN <<alertText(MsgFetch, err)>>
                   ELSE <<>>
      /\ boxes' = Render(boxes, ownedIds', panelShown)
      /\ outcome' = NoOutcome
      /\ UNCHANGED <<checkedIds, calls>>
      /\ PanelFrame

\* balanceOf of collection c resolves to n
BalanceResolves(f, c, n) ==
  /\ f \in 1..Len(fetches)
  /\ fetches[f].bal[c] = Pending
  /\ FetchStep(f, [fetches[f] EXCEPT !.bal[c] = BigNumber(n)], Undefined)

\* balanceOf of collection c rejects
BalanceRejects(f, c, err) ==
  /\ f \in 1..Len(fetches)
  /\ fetches[f].bal[c] = Pending
  /\ FetchStep(f, [fetches[f] EXCEPT !.bal[c] = Rejected], err)

\* the ids the lookups of collection c of fetch f resolved to so far
ResolvedIds(f, c) ==
  {Number(fetches[f].lookups[c][i].st) :
     i \in {j \in 1..Len(fetches[f].lookups[c]) : IsResolved(fetches[f].lookups[c][j].st)}}

\* lookup i of collection c resolves to id; the indices of one owner hold
\* different tokens
LookupResolves(f, c, i, id) ==
  /\ f \in 1..Len(fetches)
  /\ i \in 1..Len(fetches[f].lookups[c])
  /\ fetches[f].lookups[c][i].st = Pending
  /\ id \notin ResolvedIds(f, c)
  /\ FetchStep(f, [fetches[f] EXCEPT !.lookups[c][i].st = BigNumber(id),
                                      !.order[c] = Append(@, fetches[f].lookups[c][i].index)],
               Undefined)

\* lookup i of collection c rejects
LookupRejects(f, c, i, err) ==
  /\ f \in 1..Len(fetches)
  /\ i \in 1..Len(fetches[f].lookups[c])
  /\ fetches[f].lookups[c][i].st = Pending
  /\ FetchStep(f, [fetches[f] EXCEPT !.lookups[c][i].st = Rejected], err)


(***************************************************************************)
(* Interact: selection, Approve and Stake.                                 *)
(***************************************************************************)
\* setChecked([n, ...checked])
check(checked, n) == <<n>> \o checked

\* setChecked(checked.filter((e) => e !== n))
uncheck(checked, n) == SelectSeq(checked, LAMBDA e : e # n)

\* onChange of the checkbox at position i of collection c: the browser has
\* flipped the DOM's checked flag, which e.target.checked reads
Toggle(c, i) ==
  /\ panelShown
  /\ i \in 1..Len(ownedIds[c])
  /\ LET n == ownedIds[c][i]
         checked == ~boxes[c][i]
     IN  /\ boxes' = [boxes EXCEPT ![c][i] = checked]
         /\ checkedIds' = [checkedIds EXCEPT ![c] =
                             IF checked THEN check(@, n) ELSE uncheck(@, n)]
  /\ alerts' = <<>>
  /\ outcome' = NoOutcome
  /\ UNCHANGED <<ownedIds, fetches, calls>>
  /\ PanelFrame

\* A mutant of the Stake button: only unequal lengths disable it.
stakeDisabled_allowsEmpty == Len(checkedCraniums) # Len(checkedStallions)

\* A mutant of the Stake button: a pending stake call disables it.
stakeDisabled_whilePending ==
  \/ Len(checkedCraniums) # Len(checkedStallions)
  \/ Len(checkedCraniums) = 0
  \/ Len(checkedStallions) = 0
  \/ \E k \in 1..Len(calls) : calls[k].op = "stake"

\* disabled, of the Stake button
stakeDisabled ==
  \/ Len(checkedCraniums) # Len(checkedStallions)
  \/ Len(checkedCraniums) = 0
  \/ Len(checkedStallions) = 0

NewCall(op, contract, args) == [op |-> op, contract |-> contract, args |-> args]

\* onClick of "Approve Craniums" and of "Approve Stallions"
ApproveClick(c) ==
  /\ panelShown
  /\ calls' = Append(calls, NewCall("setApprovalForAll", c, <<>>))
  /\ alerts' = <<>>
  /\ outcome' = NoOutcome
  /\ UNCHANGED <<ownedIds, checkedIds, boxes, fetches>>
  /\ PanelFrame

\* onClick of "Stake"
StakeClick ==
  /\ panelShown
  /\ ~stakeDisabled
  /\ calls' = Append(calls, NewCall("stake", "Staking", <<checkedCraniums, checkedStallions>>))
  /\ alerts' = <<>>
  /\ outcome' = NoOutcome
  /\ UNCHANGED <<ownedIds, checkedIds, boxes, fetches>>
  /\ PanelFrame

\* the calls in flight without call k, which has settled
Settled(k) == [j \in 1..(Len(calls) - 1) |-> IF j < k THEN calls[j] ELSE calls[j + 1]]

\* the message of the catch callback of a call
CallMessage(call) == IF call.op = "stake" THEN MsgStake ELSE MsgApprove(call.contract)

\* the catch callback of a call: console.log and one window.alert
callCatch(call, err) == <<alertText(CallMessage(call), err)>>

\* A mutant of the then callbacks: a sent transaction clears the selection.
callThen_clears(call) == [c \in Collections |-> IF call.op = "stake" THEN <<>> ELSE checkedIds[c]]

\* the then callback of a call: console.log only; the checked ids after it
callThen(call) == checkedIds

\* call k resolves
CallResolves(k) ==
  /\ k \in 1..Len(calls)
  /\ calls' = Settled(k)
  /\ checkedIds' = callThen(calls[k])
  /\ alerts' = <<>>
  /\ outcome' = [st |-> "resolved", op |-> calls[k].op, contract |-> calls[k].contract]
  /\ UNCHANGED <<ownedIds, boxes, fetches>>
  /\ PanelFrame

\* call k rejects
CallRejects(k, err) ==
  /\ k \in 1..Len(calls)
  /\ calls' = Settled(k)
  /\ alerts' = callCatch(calls[k], err)
  /\ outcome' = [st |-> "rejected", op |-> calls[k].op, contract |-> calls[k].contract]
  /\ UNCHANGED <<ownedIds, checkedIds, boxes, fetches>>
  /\ PanelFrame

(***************************************************************************)
(* Specifications.                                                         *)
(***************************************************************************)
Fetching ==
  \/ Len(fetches) < MaxFetches /\ FetchClick
  \/ \E f \in 1..MaxFetches, c \in Collections, n \in 0..MaxBalance : BalanceResolves(f, c, n)
  \/ \E f \in 1..MaxFetches, c \in Collections, err \in CallErrors : BalanceRejects(f, c, err)
  \/ \E f \in 1..MaxFetches, c \in Collections, i \in 1..MaxBalance, id \in TokenIds :
       LookupResolves(f, c, i, id)
  \/ \E f \in 1..MaxFetches, c \in Collections, i \in 1..MaxBalance, err \in CallErrors :
       LookupRejects(f, c, i, err)

Selecting ==
  \E c \in Collections, i \in 1..MaxBalance :
     Toggle(c, i) /\ Len(checkedIds'[c]) <= MaxChecked

Calling ==
  \/ \E c \in Collections : Len(calls) < MaxCalls /\ ApproveClick(c)
  \/ Len(calls) < MaxCalls /\ StakeClick
  \/ \E k \in 1..MaxCalls : CallResolves(k)
  \/ \E k \in 1..MaxCalls, err \in CallErrors : CallRejects(k, err)

\* the connector selector, through every connector of the registry
NextWallet == Wallet(ConnectorNames)
SpecWallet == Init /\ [][NextWallet]_vars

\* Fetch alone
NextFetch == Wallet(PanelConnectors) \/ Fetching
SpecFetch == Init /\ [][NextFetch]_vars

\* Fetch and the checkboxes
NextSelect == Wallet(PanelConnectors) \/ Fetching \/ Selecting
SpecSelect == Init /\ [][NextSelect]_vars

\* the whole panel
Next == Wallet(PanelConnectors) \/ Fetching \/ Selecting \/ Calling
Spec == Init /\ [][Next]_vars

\* Operations in flight: the site is authorized, the promises of the first
\* Fetch resolve and those of a later Fetch stay pending; more calls may be
\* in flight at once than under Spec.
NextPending ==
  \/ \E a \in Accounts : EagerConnectGranted(a)
  \/ Len(fetches) < MaxPendingFetches /\ FetchClick
  \/ \E c \in Collections, n \in 0..MaxBalance : BalanceResolves(1, c, n)
  \/ \E c \in Collections, i \in 1..MaxBalance, id \in TokenIds : LookupResolves(1, c, i, id)
  \/ Selecting
  \/ \E c \in Collections : Len(calls) < MaxPendingCalls /\ ApproveClick(c)
  \/ Len(calls) < MaxPendingCalls /\ StakeClick
  \/ \E k \in 1..MaxPendingCalls : CallResolves(k)
SpecPending == Init /\ [][NextPending]_vars

(***************************************************************************)
(* Properties.                                                             *)
(***************************************************************************)

\* C1: the Stake button is enabled exactly when both checked sequences are
\* non-empty and of the same length, and every stake call in flight was
\* submitted with two non-empty id sequences of the same length.
C1_StakeEnabledIffEqualNonEmpty ==
  LET c == Len(checkedCraniums)
      s == Len(checkedStallions)
  IN  /\ ~stakeDisabled <=> (c >= 1 /\ s >= 1 /\ c = s)
      /\ \A k \in 1..Len(calls) :
           calls[k].op = "stake" =>
             /\ Len(calls[k].args[1]) = Len(calls[k].args[2])
             /\ Len(calls[k].args[1]) >= 1

\* a stake call is in flight and the selection has since become unequal, so
\* the button is disabled again
C1_Witness ==
  /\ \E k \in 1..Len(calls) : calls[k].op = "stake"
  /\ Len(checkedCraniums) # Len(checkedStallions)
  /\ panelShown

\* C2: for either collection, checking a displayed, unchecked token id and
\* then unchecking it leaves the collection's checked sequence as it was.
C2_ToggleOnOffRestores ==
  \A c \in Collections : \A i \in 1..Len(boxes[c]) :
     ~boxes[c][i] =>
        uncheck(check(checkedIds[c], ownedIds[c][i]), ownedIds[c][i]) = checkedIds[c]

\* every button is disabled exactly in the four cases
C4_DisabledIff ==
  \A name \in ConnectorNames :
     disabled(name) <=>
        \/ triedEager = FALSE
        \/ activatingConnector \in {connectorsByName[n] : n \in ConnectorNames}
        \/ connector = connectorsByName[name]
        \/ error \in Errors

\* a step that marks a connector as activating starts after the eager attempt
C4_NoClickBeforeEager ==
  (activatingConnector' # activatingConnector /\ activatingConnector' # None) => triedEager

\* C4: a connector button is disabled exactly when the eager attempt has not
\* completed, or a connector is marked as activating, or the button's
\* connector is the active one, or the context holds an error; and the
\* selector marks a connector as activating only after the eager attempt.
C4_ButtonsDisabled == [](C4_DisabledIff) /\ [][C4_NoClickBeforeEager]_vars

\* a button was clicked after the eager attempt while another connector was
\* active: every button is now disabled by the marker
C4_Witness ==
  /\ triedEager
  /\ activatingConnector # None
  /\ connector # None
  /\ connector # activatingConnector
  /\ \A name \in ConnectorNames : disabled(name)

\* the message rendered under the buttons: !!error && getErrorMessage(error)
errorMessage == IF error # NoError THEN getErrorMessage(error) ELSE ""

\* C5: a user-rejection error of any connector of the registry is displayed
\* as the "Please authorize" message, and each other kind of error as its
\* own message.
C5_UserRejectionMessage ==
  error # NoError =>
     errorMessage = IF IsUserRejection(error) THEN MsgAuthorize
                    ELSE IF error = NoEthereumProviderError THEN MsgNoProvider
                    ELSE IF error = UnsupportedChainIdError THEN MsgUnsupported
                    ELSE MsgUnknown

\* the marker is one connector or none, and never the context's connector
C10_MarkerCleared ==
  /\ activatingConnector \in {None} \cup {connectorsByName[n] : n \in ConnectorNames}
  /\ activatingConnector # None => activatingConnector # connector

\* how a step may change the marker and the pending activations
C10_MarkerStep ==
  /\ (activatingConnector' # activatingConnector /\ activatingConnector' # None) =>
        /\ \E name \in ConnectorNames :
              ~disabled(name) /\ activatingConnector' = connectorsByName[name]
        /\ activations' = activations \cup {activatingConnector'}
  /\ activatingConnector # None => activations' \subseteq activations
  /\ activatingConnector' # activatingConnector =>
        \/ activatingConnector = None
        \/ activatingConnector' = None /\ connector' = activatingConnector

\* C10: the marker holds one connector or none; it is never left equal to
\* the context's connector; it is set only by the click of an enabled
\* button, which requests the activation of that same connector; and while
\* it is set no activation is requested.
C10_Marker == [](C10_MarkerCleared) /\ [][C10_MarkerStep]_vars

\* a connector other than the injected one is active and the marker is
\* none: its button was clicked and the marker cleared when it connected
C10_Witness ==
  /\ connector # None
  /\ connector # Injected
  /\ error = NoError
  /\ activatingConnector = None

\* Predicates of a fetch record.
BothBalances(fe) == \A d \in Collections : IsResolved(fe.bal[d])

FetchSettled(fe) ==
  /\ \A c \in Collections : fe.bal[c] # Pending
  /\ \A c \in Collections : \A i \in 1..Len(fe.lookups[c]) : fe.lookups[c][i].st # Pending

LookupRejected(fe, c) == \E i \in 1..Len(fe.lookups[c]) : fe.lookups[c][i].st = Rejected

LookupsResolved(fe, c) == \A i \in 1..Len(fe.lookups[c]) : IsResolved(fe.lookups[c][i].st)

FailedFor(fe, c) == fe.bal[c] = Rejected \/ LookupRejected(fe, c)

\* the step makes fetch f set the owned ids of collection c
Writes(f, c) == fetches'[f].wrote[c] /\ ~fetches[f].wrote[c]

\* C3, as stated: once a collection's balanceOf has resolved to n, the Fetch
\* has, by the time all its promises are settled, issued n lookups with the
\* indices 0..n-1, and if they all resolved the owned ids are the resolved
\* values in the order the lookups resolved.
C3_Original ==
  \A f \in 1..Len(fetches) : \A c \in Collections :
     LET fe == fetches[f]
         n == Number(fe.bal[c])
     IN  (FetchSettled(fe) /\ IsResolved(fe.bal[c])) =>
            /\ Len(fe.lookups[c]) = n
            /\ {fe.lookups[c][i].index : i \in 1..Len(fe.lookups[c])} = 0..(n - 1)
            /\ LookupsResolved(fe, c) =>
                 ownedIds[c] = [k \in 1..Len(fe.order[c]) |->
                                  Number(fe.lookups[c][fe.order[c][k] + 1].st)]

\* the lookups a Fetch has issued
C3_LookupsIssued ==
  \A f \in 1..Len(fetches) : \A c \in Collections :
     LET fe == fetches[f]
         n == Number(fe.bal[c])
     IN  /\ BothBalances(fe) =>
              /\ Len(fe.lookups[c]) = n
              /\ \A i \in 1..n : fe.lookups[c][i].index = i - 1
              /\ n = 0 => fe.wrote[c]
         /\ ~BothBalances(fe) => fe.lookups[c] = <<>>

\* what the step that sets a collection's owned ids sets them to
C3_OwnedSet ==
  \A f \in 1..Len(fetches) : \A c \in Collections :
     Writes(f, c) =>
        LET lk == fetches'[f].lookups[c]
        IN  /\ LookupsResolved(fetches'[f], c)
            /\ Len(ownedIds'[c]) = Len(lk)
            /\ \A i \in 1..Len(lk) :
                 \E j \in 1..Len(lk) :
                    lk[j].index = i - 1 /\ ownedIds'[c][i] = Number(lk[j].st)
            /\ Len(lk) = 0 => boxes'[c] = <<>>

\* C3, amended: when both balanceOf calls of a Fetch have resolved, the one
\* of a collection to n, the Fetch has issued exactly n lookups for that
\* collection, the i-th with index i - 1, and none before that; a collection
\* of balance 0 is set at once; and the step that sets a collection's owned
\* ids sets them to the resolved values in index order (position i holds
\* the value of the lookup of index i - 1), with no checkbox rendered for
\* an empty sequence.
C3_Amended == [](C3_LookupsIssued) /\ [][C3_OwnedSet]_vars

\* the lookup of index 1 resolved before the lookup of index 0, and the
\* owned ids are stored in index order
C3_Witness ==
  \E f \in 1..Len(fetches) : \E c \in Collections :
     /\ fetches[f].wrote[c]
     /\ fetches[f].order[c] = <<1, 0>>
     /\ ownedIds[c] = <<Number(fetches[f].lookups[c][1].st), Number(fetches[f].lookups[c][2].st)>>
     /\ ownedIds[c][1] # ownedIds[c][2]

\* C6: a Fetch one of whose balanceOf or tokenOfOwnerByIndex calls rejected
\* has, once all its promises are settled, raised the alert.
C6_FailingFetchAlerts ==
  \A f \in 1..Len(fetches) :
     (FetchSettled(fetches[f]) /\ \E c \in Collections : FailedFor(fetches[f], c)) =>
        fetches[f].alerted >= 1

\* a Fetch that failed for a collection has not set it
C7_FailedNeverWrote ==
  \A f \in 1..Len(fetches) : \A c \in Collections :
     FailedFor(fetches[f], c) => ~fetches[f].wrote[c]

\* the owned ids change only when a Fetch that did not fail sets them
C7_OnlyWholeWrites ==
  \A c \in Collections :
     ownedIds'[c] # ownedIds[c] =>
        \E f \in 1..Len(fetches) : Writes(f, c) /\ ~FailedFor(fetches'[f], c)

\* C7: a Fetch whose balanceOf or one of whose lookups rejected for a
\* collection never sets that collection's owned ids: the owned ids of a
\* collection change only in the step in which a Fetch none of whose calls
\* for the collection rejected sets them.
C7_NoPartialResults == [](C7_FailedNeverWrote) /\ [][C7_OnlyWholeWrites]_vars

\* all lookups of a collection are settled, one resolved and one rejected,
\* and the owned ids are still the initial empty sequence
C7_Witness ==
  \E f \in 1..Len(fetches) : \E c \in Collections :
     /\ FetchSettled(fetches[f])
     /\ LookupRejected(fetches[f], c)
     /\ \E i \in 1..Len(fetches[f].lookups[c]) : IsResolved(fetches[f].lookups[c][i].st)
     /\ ~fetches[f].wrote[c]
     /\ ownedIds[c] = <<>>

\* the alert a rejected call of this kind raises
C8_Message(op, contract) ==
  IF op = "stake" THEN "Staking transaction could not be sent!"
  ELSE IF contract = "Cranium" THEN "Failure approving Craniums!"
  ELSE "Failure approving Stallions!"

\* a step that sends or settles a call
C8_CallStep ==
  calls' # calls =>
     /\ ownedIds' = ownedIds
     /\ checkedIds' = checkedIds
     /\ outcome'.st = "rejected" =>
          /\ Len(alerts') = 1
          /\ alerts'[1].text = C8_Message(outcome'.op, outcome'.contract)
          /\ Len(calls') = Len(calls) - 1
     /\ outcome'.st = "resolved" =>
          /\ alerts' = <<>>
          /\ Len(calls') = Len(calls) - 1
     /\ outcome'.st = "none" =>
          /\ alerts' = <<>>
          /\ Len(calls') = Len(calls) + 1

\* C8: a step that sends or settles an Approve or Stake call leaves the
\* owned and the checked ids of both collections unchanged; a rejection
\* raises exactly one alert, with the message of that call, and sends no
\* call; a success raises no alert.
C8_CallsKeepPanelState == [][C8_CallStep]_vars

\* a stake call was rejected: one alert, nothing in flight, and the
\* selection it was submitted with is still checked
C8_Witness ==
  /\ outcome.st = "rejected"
  /\ outcome.op = "stake"
  /\ Len(alerts) = 1
  /\ calls = <<>>
  /\ checkedCraniums # <<>>
  /\ Len(checkedCraniums) = Len(checkedStallions)

\* C9, as stated: the lookups of a collection are issued once that
\* collection's own balanceOf has resolved, whatever the other balanceOf does.
C9_Original ==
  \A f \in 1..Len(fetches) : \A c \in Collections :
     IsResolved(fetches[f].bal[c]) => fetches[f].issued[c]

\* C9, amended: the lookups of both collections are issued when both
\* balanceOf calls have resolved, and not before; from then on each
\* collection's owned ids are set exactly when all of its own lookups have
\* resolved, whatever the lookups of the other collection do.
C9_Amended ==
  \A f \in 1..Len(fetches) : \A c \in Collections :
     /\ fetches[f].issued[c] <=> BothBalances(fetches[f])
     /\ fetches[f].wrote[c] <=> (fetches[f].issued[c] /\ LookupsResolved(fetches[f], c))

\* the Craniums are set although a lookup of the Stallions rejected
C9_Witness ==
  \E f \in 1..Len(fetches) :
     /\ fetches[f].wrote["Cranium"]
     /\ ownedIds["Cranium"] # <<>>
     /\ LookupRejected(fetches[f], "Stallion")
     /\ ~fetches[f].wrote["Stallion"]

\* C11: no operation in flight disables a button of the panel: whenever the
\* panel is shown Fetch and both Approve buttons can be clicked, and Stake
\* can be clicked whenever the two checked sequences are non-empty and of
\* the same length, whatever Fetches and calls are in flight.
C11_NoInFlightGuard ==
  panelShown =>
     /\ ENABLED FetchClick
     /\ \A c \in Collections : ENABLED ApproveClick(c)
     /\ (Len(checkedCraniums) >= 1 /\ Len(checkedCraniums) = Len(checkedStallions)) =>
           ENABLED StakeClick

\* an Approve and a Fetch are in flight, and so are two Stake calls with
\* the same id sequences, which are still the checked ones
C11_Witness ==
  /\ \E f \in 1..Len(fetches) : ~FetchSettled(fetches[f])
  /\ \E k \in 1..Len(calls) : calls[k].op = "setApprovalForAll"
  /\ \E j, k \in 1..Len(calls) :
        /\ j # k
        /\ calls[j].op = "stake"
        /\ calls[k].op = "stake"
        /\ calls[j].args = calls[k].args
        /\ calls[k].args = <<checkedCraniums, checkedStallions>>

\* the ids of a sequence
Ids(seq) == {seq[i] : i \in 1..Len(seq)}

NoDuplicates(seq) == \A i, j \in 1..Len(seq) : seq[i] = seq[j] => i = j

\* every checked id of collection c is an owned id of c
C12_CheckedAreOwned(c) == Ids(checkedIds[c]) \subseteq Ids(ownedIds[c])

\* C12: every checked id of a collection is one of the collection's current
\* owned ids, and no checked sequence holds an id twice (Stake submits the
\* checked sequences, so it would submit owned ids only, each once).
C12_CheckedOwnedNoDuplicates ==
  \A c \in Collections :
     /\ C12_CheckedAreOwned(c)
     /\ NoDuplicates(checkedIds[c])

=============================================================================
